---- MODULE Spec2Model ----
(***************************************************************************)
(* Model of stackinabox/util/requests_mock/core.py: the thread-local       *)
(* session registry (local_sessions), URI registration on a session, the   *)
(* verb wrappers, the session wrapper class and the activate context that  *)
(* substitutes and restores the attributes of the requests package.        *)
(***************************************************************************)
EXTENDS Integers, Sequences, FiniteSets, TLC

\* ------------------------------------------------------------------ bounds
MaxSessions == 2
MaxAdapters == 1
\* registration calls in the runs that only register
MaxRegistrations == 2

\* ------------------------------------------------------------- universes
Threads == {"t0", "t1"}
\* the thread that imports the module and so runs its top-level statements
Loader == "t0"
\* activate objects, named in the order they are constructed
Contexts == {"c1", "c2"}
Earlier(c) == IF c = "c2" THEN {"c1"} ELSE {}

\* URIs and URLs are sequences of characters; a scheme is one leading token
Uris == { <<"a">>, <<"a", "/">>, <<"b">> }
Urls == { <<"http://", "a", "/", "w">>,
          <<"https://", "a", "/", "w">>,
          <<"http://", "b", "/", "w">>,
          <<"http://", "c", "/", "w">> }

\* requests_session objects that application code creates and keeps
Facades == {"f1"}

\* local_sessions has no attribute `session` on this thread
NoSession == 0
\* the transport adapter a new requests Session mounts by default
HTTPAdapter == 0

\* --------------------------------------------------- attribute values
Val(kind, name, id) == [kind |-> kind, name |-> name, id |-> id]
Lib(name) == Val("orig", name, 0)
Core(name) == Val("core", name, 0)
SessionObj(s) == Val("session", "Session", s)
Absent == Val("absent", "", 0)

VerbSyms == {"requests.request", "requests.get", "requests.options",
             "requests.head", "requests.post", "requests.put",
             "requests.patch", "requests.delete"}
SessionSyms == {"requests.session", "requests.Session",
                "requests.sessions.Session"}
\* the keys of activate.__replacements
TableKeys == VerbSyms \cup SessionSyms
\* every attribute of the requests package the module reads or writes
SymNames == TableKeys \cup {"requests.Sesssion", "requests.sessions.Sesssion"}

\* what the requests package binds before anything is substituted;
\* requests.Session and requests.sessions.Session are one class object
Original(sym) ==
    CASE sym \in VerbSyms -> Lib(sym)
      [] sym = "requests.session" -> Lib("requests.session")
      [] sym \in {"requests.Session", "requests.sessions.Session"}
            -> Lib("requests.sessions.Session")
      [] OTHER -> Absent

\* the wrapper of this module that stands in for a verb attribute
Wrapper(sym) ==
    CASE sym = "requests.request" -> Core("requests_request")
      [] sym = "requests.get" -> Core("requests_get")
      [] sym = "requests.options" -> Core("requests_options")
      [] sym = "requests.head" -> Core("requests_head")
      [] sym = "requests.post" -> Core("requests_post")
      [] sym = "requests.put" -> Core("requests_put")
      [] sym = "requests.patch" -> Core("requests_patch")
      [] sym = "requests.delete" -> Core("requests_delete")

\* the attributes __enter__ assigns
EnterWritten ==
    VerbSyms \cup {"requests.session", "requests.Sesssion",
                   "requests.sessions.Sesssion"}

\* the value __enter__ assigns to an attribute, s being the caller's session
EnterBinding(sym, s) ==
    CASE sym \in VerbSyms -> Wrapper(sym)
      [] sym = "requests.session" -> SessionObj(s)
      [] OTHER -> Core("requests_session")

\* the attributes __exit__ assigns
ExitWritten ==
    {"requests.session", "requests.Session", "requests.sessions.Session",
     "requests.delete", "requests.patch", "requests.put", "requests.post",
     "requests.head", "requests.options", "requests.get", "requests.request"}

\* variant: __exit__ ends with `return True`
ExitReturnTrue == "True"

\* __exit__ has no return statement
ExitReturn == "None"

\* the with statement swallows the body's exception only on a true return
Propagates(exc, ret) == exc # "None" /\ ret # "True"

\* a new requests Session mounts the real adapter for both schemes
DefaultMounts == [k \in { <<"http://">>, <<"https://">> } |-> HTTPAdapter]

\* --------------------------------------------------------------- state
VARIABLES
    symbols,        \* attribute of the requests package -> value bound
    local_sessions, \* thread -> its local_sessions.session, or NoSession
    mounts,         \* allocated session -> (mount key -> adapter)
    nextSession,    \* number of Session objects allocated so far, plus one
    matchers,       \* allocated mock adapter -> the matchers added to it
    nextAdapter,    \* number of mock adapters allocated so far, plus one
    held,           \* what StackInABox holds under the key 'adapter'
    stack_uri,      \* the URI StackInABox.update_uri was last given
    ctx,            \* activate object -> constructed?, its __replacements
    active,         \* activate object -> entered and not yet exited
    preEnter,       \* active activate object -> the attributes just before
                    \*   its enter
    mountedIn,      \* active activate object -> the adapters registration()
                    \*   mounted since its enter
    scenario,       \* how far the run is the scenario of section 8
    facades,        \* requests_session object -> created?, by which thread,
                    \*   and the session that thread had then
    inflight,       \* thread -> the session_registration call it is inside,
                    \*   when the call is followed statement by statement
    last            \* what the last call returned or raised

vars == <<symbols, local_sessions, mounts, nextSession, matchers,
          nextAdapter, held, stack_uri, ctx, active, preEnter, mountedIn,
          scenario, facades, inflight, last>>

Sessions == 1..(nextSession - 1)

NoTable == [k \in TableKeys |-> Absent]
NoSnapshot == [k \in SymNames |-> Absent]

\* keyword arguments: a function from argument names to values
NoKwargs == [k \in {} |-> "None"]

\* what a caller passes to a request function: the url, the method where
\* the function takes one, and keyword arguments
Args(m, url, kw) == [method |-> m, url |-> url, kwargs |-> kw]
NoArgs == Args("-", <<>>, NoKwargs)

\* what a call is observed to do: its outcome, and for a request the
\* wrapper that ran (fn), the arguments the caller gave (args), the
\* arguments session.request was given (method, url, kwargs), the calls
\* made on the session in their order (events) and what answered
NoObs ==
    [op |-> "none", thread |-> Loader, ctx |-> "none", outcome |-> "ok",
     exc |-> "None", propagates |-> FALSE, wasActive |-> FALSE,
     mounted |-> {}, fn |-> Absent, served |-> "none", adapter |-> 0,
     matcher |-> <<>>, session |-> 0, closed |-> 0,
     args |-> NoArgs, method |-> "", url |-> <<>>, kwargs |-> NoKwargs,
     events |-> <<>>, snap |-> NoSnapshot, facade |-> "none"]

\* a requests_session object that was not created yet
NoFacade == [made |-> FALSE, thread |-> Loader, session |-> NoSession]

\* a thread that is not inside session_registration
Idle == [pc |-> "idle", uri |-> <<>>, session |-> 0, own |-> 0,
         matched |-> 0, http |-> 0, https |-> 0]

\* ---------------------------------------------------- scenario monitor
\* The scenario of section 8, run from the initial state:
\*   construct c; enter c; registration(u); requests.get(url under http://u/);
\*   exit c; requests.get(url)
\* step counts the calls of the scenario made so far; first and second keep
\* what the two gets returned.  A call that only reads (a request, a
\* get_session, a close) leaves the monitor where it is; any other call
\* that is not the next call of the scenario ends it (step -1).
NoScenario == [step |-> 0, thread |-> Loader, ctx |-> "none", uri |-> <<>>,
               url |-> <<>>, first |-> NoObs, second |-> NoObs]
Broken == [NoScenario EXCEPT !.step = -1]

Event(op, t, c, uri, sym, url, ok) ==
    [op |-> op, thread |-> t, ctx |-> c, uri |-> uri, sym |-> sym,
     url |-> url, ok |-> ok]

UnderUri(url, uri) ==
    LET n == IF uri[Len(uri)] = "/" THEN uri ELSE Append(uri, "/")
        k == <<"http://">> \o n
    IN Len(k) <= Len(url) /\ SubSeq(url, 1, Len(k)) = k

ScenarioNext(e, obs) ==
    CASE scenario.step = 0 /\ e.op = "construct"
            -> [scenario EXCEPT !.step = 1, !.ctx = e.ctx]
      [] scenario.step = 1 /\ e.op = "enter" /\ e.ok /\ e.ctx = scenario.ctx
            -> [scenario EXCEPT !.step = 2, !.thread = e.thread]
      [] scenario.step = 2 /\ e.op = "register" /\ e.ok
            /\ e.thread = scenario.thread
            -> [scenario EXCEPT !.step = 3, !.uri = e.uri]
      [] scenario.step = 3 /\ e.op = "call" /\ e.sym = "requests.get"
            /\ e.thread = scenario.thread /\ UnderUri(e.url, scenario.uri)
            -> [scenario EXCEPT !.step = 4, !.url = e.url, !.first = obs]
      [] scenario.step = 4 /\ e.op = "exit" /\ e.ok
            /\ e.thread = scenario.thread /\ e.ctx = scenario.ctx
            -> [scenario EXCEPT !.step = 5]
      [] scenario.step = 5 /\ e.op = "call" /\ e.sym = "requests.get"
            /\ e.thread = scenario.thread /\ e.url = scenario.url
            -> [scenario EXCEPT !.step = 6, !.second = obs]
      [] OTHER -> IF e.op \in {"call", "read"} THEN scenario ELSE Broken

ReadEvent == Event("read", Loader, "none", <<>>, "", <<>>, TRUE)
WriteEvent == Event("write", Loader, "none", <<>>, "", <<>>, FALSE)

Init ==
    /\ symbols = [k \in SymNames |-> Original(k)]
    /\ local_sessions = [t \in Threads |-> IF t = Loader THEN 1 ELSE NoSession]
    /\ mounts = [s \in {1} |-> DefaultMounts]
    /\ nextSession = 2
    /\ matchers = <<>>
    /\ nextAdapter = 1
    /\ held = 0
    /\ stack_uri = <<>>
    /\ ctx = [c \in Contexts |-> [constructed |-> FALSE, replacements |-> NoTable]]
    /\ active = [c \in Contexts |-> FALSE]
    /\ preEnter = [c \in Contexts |-> NoSnapshot]
    /\ mountedIn = [c \in Contexts |-> {}]
    /\ scenario = NoScenario
    /\ facades = [f \in Facades |-> NoFacade]
    /\ inflight = [t \in Threads |-> Idle]
    /\ last = NoObs

\* ------------------------------------------------------ session registry
\* get_session(): read of local_sessions.session on thread t
get_session(t) ==
    /\ last' = [NoObs EXCEPT !.op = "get_session", !.thread = t,
                   !.outcome = IF local_sessions[t] = NoSession
                               THEN "AttributeError" ELSE "ok",
                   !.session = local_sessions[t]]
    /\ scenario' = ScenarioNext(ReadEvent, last')
    /\ UNCHANGED <<symbols, local_sessions, mounts, nextSession, matchers,
                   nextAdapter, held, stack_uri, ctx, active, preEnter,
                   mountedIn,
                   facades, inflight>>

\* --------------------------------------------------- URI registration
\* p is a prefix of q
IsPrefix(p, q) == Len(p) <= Len(q) /\ SubSeq(q, 1, Len(p)) = p

\* variant: the '/' is appended whatever the uri ends with
NormUriAppend(uri) == uri \o <<"/">>

\* lines 59-60: a '/' is appended unless the uri already ends with one
NormUri(uri) ==
    IF Len(uri) > 0 /\ uri[Len(uri)] = "/" THEN uri ELSE uri \o <<"/">>

\* lines 63 and 64: the key of each scheme
HttpKey(uri) == <<"http://">> \o NormUri(uri)
HttpsKey(uri) == <<"https://">> \o NormUri(uri)

\* the two keys session_registration mounts for a uri
MountKeys(uri) == { HttpKey(uri), HttpsKey(uri) }

\* variant: mounting drops the mock adapters mounted before
mount_only(m, k, a) ==
    [x \in {y \in DOMAIN m : m[y] \in {HTTPAdapter, a}} \cup {k} |->
        IF x = k THEN a ELSE m[x]]

\* session.mount(k, a) on a session whose mounts are m
mount(m, k, a) == [x \in DOMAIN m \cup {k} |-> IF x = k THEN a ELSE m[x]]

\* the matcher session_registration adds: RequestMockCallable(uri)
RequestMockCallable(uri) == uri

\* StackInABox.hold_out('adapter'): what hold_onto('adapter', ...) stored
\* last, one slot for the whole process
hold_out == held

\* session_registration(uri, s): update_uri, hold_onto a new Adapter,
\* add the matcher to the held adapter, mount the held adapter twice
session_registration(uri, s) ==
    /\ stack_uri' = uri
    /\ held' = nextAdapter
    /\ nextAdapter' = nextAdapter + 1
    /\ matchers' = [a \in 1..nextAdapter |->
                      IF a = hold_out' THEN <<RequestMockCallable(uri)>>
                      ELSE matchers[a]]
    /\ mounts' = [mounts EXCEPT ![s] =
                    mount(mount(@, HttpKey(uri), hold_out'),
                          HttpsKey(uri), hold_out')]

\* a direct call of session_registration, on any thread, with a session
\* the caller holds
register_on_session(uri, s) ==
    /\ s \in Sessions
    /\ session_registration(uri, s)
    /\ last' = [NoObs EXCEPT !.op = "register_on_session", !.session = s,
                   !.adapter = held']
    /\ scenario' = ScenarioNext(WriteEvent, last')
    /\ UNCHANGED <<symbols, local_sessions, nextSession, ctx, active,
                   preEnter, mountedIn,
                   facades, inflight>>

\* registration(uri): the argument local_sessions.session is read first
registration(t, uri) ==
    IF local_sessions[t] = NoSession
    THEN /\ last' = [NoObs EXCEPT !.op = "register", !.thread = t,
                        !.outcome = "AttributeError"]
         /\ scenario' = ScenarioNext(WriteEvent, last')
         /\ UNCHANGED <<symbols, local_sessions, mounts, nextSession,
                        matchers, nextAdapter, held, stack_uri, ctx, active,
                        preEnter, mountedIn,
                   facades, inflight>>
    ELSE /\ session_registration(uri, local_sessions[t])
         /\ mountedIn' = [c \in Contexts |->
                            IF active[c] THEN mountedIn[c] \cup {held'}
                            ELSE mountedIn[c]]
         /\ last' = [NoObs EXCEPT !.op = "register", !.thread = t,
                        !.session = local_sessions[t], !.adapter = held']
         /\ scenario' = ScenarioNext(Event("register", t, "none", uri, "",
                                           <<>>, TRUE), last')
         /\ UNCHANGED <<symbols, local_sessions, nextSession, ctx, active,
                        preEnter,
                   facades, inflight>>

\* ------------------------------ session_registration, statement by statement
\* Thread t is inside session_registration(uri, s) at inflight[t].pc; own
\* is the Adapter its line 53 made, matched the adapter its line 55 added
\* the matcher to, http and https the adapters its lines 63 and 64 mounted.

\* lines 50-53: update_uri(uri), hold_onto('adapter', Adapter())
reg_hold_onto(t, uri, s) ==
    /\ inflight[t].pc = "idle"
    /\ s \in Sessions
    /\ stack_uri' = uri
    /\ held' = nextAdapter
    /\ nextAdapter' = nextAdapter + 1
    /\ matchers' = [a \in 1..nextAdapter |->
                      IF a = nextAdapter THEN <<>> ELSE matchers[a]]
    /\ inflight' = [inflight EXCEPT ![t] =
                      [Idle EXCEPT !.pc = "held", !.uri = uri,
                                   !.session = s, !.own = nextAdapter]]
    /\ last' = [NoObs EXCEPT !.op = "reg_hold_onto", !.thread = t,
                   !.session = s, !.adapter = nextAdapter]
    /\ scenario' = ScenarioNext(WriteEvent, last')
    /\ UNCHANGED <<symbols, local_sessions, mounts, nextSession, ctx,
                   active, preEnter, mountedIn, facades>>

\* lines 55-57: hold_out('adapter').add_matcher(RequestMockCallable(uri))
reg_add_matcher(t) ==
    /\ inflight[t].pc = "held"
    /\ matchers' = [matchers EXCEPT ![hold_out] =
                      Append(@, RequestMockCallable(inflight[t].uri))]
    /\ inflight' = [inflight EXCEPT ![t].pc = "matched",
                                    ![t].matched = hold_out]
    /\ last' = [NoObs EXCEPT !.op = "reg_add_matcher", !.thread = t,
                   !.adapter = hold_out]
    /\ scenario' = ScenarioNext(WriteEvent, last')
    /\ UNCHANGED <<symbols, local_sessions, mounts, nextSession,
                   nextAdapter, held, stack_uri, ctx, active, preEnter,
                   mountedIn, facades>>

\* lines 59-63: session.mount('http://' + uri, hold_out('adapter'))
reg_mount_http(t) ==
    /\ inflight[t].pc = "matched"
    /\ mounts' = [mounts EXCEPT ![inflight[t].session] =
                    mount(@, HttpKey(inflight[t].uri), hold_out)]
    /\ inflight' = [inflight EXCEPT ![t].pc = "http", ![t].http = hold_out]
    /\ last' = [NoObs EXCEPT !.op = "reg_mount_http", !.thread = t,
                   !.session = inflight[t].session, !.adapter = hold_out]
    /\ scenario' = ScenarioNext(WriteEvent, last')
    /\ UNCHANGED <<symbols, local_sessions, nextSession, matchers,
                   nextAdapter, held, stack_uri, ctx, active, preEnter,
                   mountedIn, facades>>

\* line 64: session.mount('https://' + uri, hold_out('adapter')), return
reg_mount_https(t) ==
    /\ inflight[t].pc = "http"
    /\ mounts' = [mounts EXCEPT ![inflight[t].session] =
                    mount(@, HttpsKey(inflight[t].uri), hold_out)]
    /\ inflight' = [inflight EXCEPT ![t].pc = "idle", ![t].https = hold_out]
    /\ last' = [NoObs EXCEPT !.op = "reg_mount_https", !.thread = t,
                   !.session = inflight[t].session, !.adapter = hold_out]
    /\ scenario' = ScenarioNext(WriteEvent, last')
    /\ UNCHANGED <<symbols, local_sessions, nextSession, matchers,
                   nextAdapter, held, stack_uri, ctx, active, preEnter,
                   mountedIn, facades>>

\* ------------------------------------------------------------- requests
\* variant: the adapter under the shortest matching prefix
get_adapter_shortest(m, url) ==
    LET hits == {k \in DOMAIN m : IsPrefix(k, url)}
    IN m[CHOOSE k \in hits : \A k2 \in hits : Len(k) <= Len(k2)]

\* Session.get_adapter(url): the adapter under the longest matching prefix
get_adapter(m, url) ==
    LET hits == {k \in DOMAIN m : IsPrefix(k, url)}
    IN m[CHOOSE k \in hits : \A k2 \in hits : Len(k2) <= Len(k)]

\* whether the matcher bound to uri m services url (scheme not compared)
Matches(m, url) == IsPrefix(m, Tail(url))

\* what Session.request(url) on session s does, up to the network's answer:
\* a mock adapter asks its matchers, newest first; the real adapter goes out
Response(s, url) ==
    LET a == get_adapter(mounts[s], url)
        ms == IF a = HTTPAdapter THEN <<>> ELSE matchers[a]
        hit == {i \in DOMAIN ms : Matches(ms[i], url)}
    IN IF a = HTTPAdapter
       THEN [served |-> "network", adapter |-> a, matcher |-> <<>>,
             outcome |-> "ok"]
       ELSE IF hit = {}
       THEN [served |-> "none", adapter |-> a, matcher |-> <<>>,
             outcome |-> "NoMockAddress"]
       ELSE [served |-> "mock", adapter |-> a,
             matcher |-> ms[CHOOSE i \in hit : \A j \in hit : j <= i],
             outcome |-> "ok"]

\* the answers a real network attempt can have
NetOutcomes(r) ==
    IF r.served = "network" THEN {"ok", "ConnectionError"} ELSE {r.outcome}

\* what the caller passes for allow_redirects, "absent" being nothing
Redirects == {"absent", "True", "False"}

\* the caller's keyword arguments
Kwargs(ar) ==
    IF ar = "absent" THEN NoKwargs ELSE [k \in {"allow_redirects"} |-> ar]

\* the method a caller of requests.request passes; the other functions
\* take none
MethodArgs(sym) ==
    IF sym = "requests.request" THEN {"get", "head", "post"} ELSE {"-"}

\* kwargs.setdefault(key, v)
setdefault(kw, key, v) ==
    IF key \in DOMAIN kw THEN kw
    ELSE [k \in DOMAIN kw \cup {key} |-> IF k = key THEN v ELSE kw[k]]

\* a named parameter with default v handed on as key=...
named(kw, key, v) ==
    [k \in DOMAIN kw \cup {key} |-> IF k \in DOMAIN kw THEN kw[k] ELSE v]

\* the arguments of a call requests_request(method, url, **kwargs)
Dispatch(method, url, kw) == [method |-> method, url |-> url, kwargs |-> kw]

\* lines 88-123: what each verb wrapper calls requests_request with
requests_get(url, kw) ==
    Dispatch("get", url, setdefault(kw, "allow_redirects", "True"))

requests_options(url, kw) ==
    Dispatch("options", url, setdefault(kw, "allow_redirects", "True"))

\* variant: head follows redirects by default, as get does
requests_head_follow(url, kw) ==
    Dispatch("head", url, setdefault(kw, "allow_redirects", "True"))

requests_head(url, kw) ==
    Dispatch("head", url, setdefault(kw, "allow_redirects", "False"))

requests_post(url, kw) ==
    Dispatch("post", url, named(named(kw, "data", "None"), "json", "None"))

requests_put(url, kw) == Dispatch("put", url, named(kw, "data", "None"))

requests_patch(url, kw) == Dispatch("patch", url, named(kw, "data", "None"))

requests_delete(url, kw) == Dispatch("delete", url, kw)

\* the call of requests_request that a call of the function named fn makes
Forward(fn, m, url, kw) ==
    CASE fn = "requests_get" -> requests_get(url, kw)
      [] fn = "requests_options" -> requests_options(url, kw)
      [] fn = "requests_head" -> requests_head(url, kw)
      [] fn = "requests_post" -> requests_post(url, kw)
      [] fn = "requests_put" -> requests_put(url, kw)
      [] fn = "requests_patch" -> requests_patch(url, kw)
      [] fn = "requests_delete" -> requests_delete(url, kw)
      [] OTHER -> Dispatch(m, url, kw)

\* variant: the session is closed before the request is made
DispatchEventsCloseFirst(s, o) ==
    IF o = "ok"
    THEN << <<"read", s>>, <<"close", s>>, <<"request", s>>, <<"return", s>> >>
    ELSE << <<"read", s>>, <<"close", s>>, <<"request", s>>, <<"raise", s>> >>

\* lines 82-85 in their order, s being the session line 82 read and o the
\* outcome of session.request: a request that raises ends the call
DispatchEvents(s, o) ==
    IF o = "ok"
    THEN << <<"read", s>>, <<"request", s>>, <<"close", s>>, <<"return", s>> >>
    ELSE << <<"read", s>>, <<"request", s>>, <<"raise", s>> >>

\* variant: a failure of the request is raised as an error of this module
RaisedWrapped(o) == IF o = "ok" THEN o ELSE "MockError"

\* what the caller of requests_request gets when session.request ends o
Raised(o) == o

\* requests_request(method, url, **kwargs) run on thread t for a call of
\* the wrapper fn with the caller's arguments args: read
\* local_sessions.session, session.request(...), session.close(), return
requests_request(t, method, url, kwargs, fn, args) ==
    IF local_sessions[t] = NoSession
    THEN last' = [NoObs EXCEPT !.op = "call", !.thread = t, !.fn = fn,
                     !.args = args, !.outcome = "AttributeError"]
    ELSE \E o \in NetOutcomes(Response(local_sessions[t], url)) :
            LET s == local_sessions[t]
                r == Response(s, url)
                ev == DispatchEvents(s, o)
            IN last' = [NoObs EXCEPT !.op = "call", !.thread = t, !.fn = fn,
                           !.args = args, !.method = method, !.url = url,
                           !.kwargs = kwargs, !.events = ev,
                           !.session = s,
                           !.served = r.served, !.adapter = r.adapter,
                           !.matcher = r.matcher, !.outcome = Raised(o),
                           !.closed = IF \E i \in DOMAIN ev :
                                            ev[i][1] = "close"
                                      THEN s ELSE 0]

\* a call of the wrapper fn of this module on thread t
wrapper_call(t, fn, m, url, kw) ==
    LET d == Forward(fn.name, m, url, kw)
    IN requests_request(t, d.method, d.url, d.kwargs, fn, Args(m, url, kw))

\* the function of the requests package itself: it opens a Session of its
\* own through requests.sessions.Session and requests through it
library_request(t, m, url, kw, fn) ==
    IF symbols["requests.sessions.Session"].kind = "core"
    THEN requests_request(t, m, url, kw, fn, Args(m, url, kw))
    ELSE \E o \in {"ok", "ConnectionError"} :
            last' = [NoObs EXCEPT !.op = "call", !.thread = t, !.fn = fn,
                        !.args = Args(m, url, kw),
                        !.served = "network", !.adapter = HTTPAdapter,
                        !.outcome = o]

\* application code calls requests.<verb>(url): whatever the attribute binds
call_symbol(t, sym, m, url, ar) ==
    /\ IF symbols[sym].kind = "core"
       THEN wrapper_call(t, symbols[sym], m, url, Kwargs(ar))
       ELSE library_request(t, m, url, Kwargs(ar), symbols[sym])
    /\ scenario' = ScenarioNext(Event("call", t, "none", <<>>, sym, url,
                                      TRUE), last')
    /\ UNCHANGED <<symbols, local_sessions, mounts, nextSession, matchers,
                   nextAdapter, held, stack_uri, ctx, active, preEnter,
                   mountedIn, facades, inflight>>

\* application code calls a wrapper of this module by its own name
call_wrapper(t, sym, m, url, ar) ==
    /\ wrapper_call(t, Wrapper(sym), m, url, Kwargs(ar))
    /\ scenario' = ScenarioNext(ReadEvent, last')
    /\ UNCHANGED <<symbols, local_sessions, mounts, nextSession, matchers,
                   nextAdapter, held, stack_uri, ctx, active, preEnter,
                   mountedIn, facades, inflight>>

\* ------------------------------------------------------- session wrapper
\* a requests_session object made in the call expression itself
NewFacade == "new"

\* whether facade f exists for a call
Made(f) == f = NewFacade \/ (f \in Facades /\ facades[f].made)

\* requests_session.__init__, on any thread: the object keeps nothing; the
\* session its maker had is noted for the properties only
facade_init(t, f) ==
    /\ ~facades[f].made
    /\ facades' = [facades EXCEPT ![f] = [made |-> TRUE, thread |-> t,
                                          session |-> local_sessions[t]]]
    /\ last' = [NoObs EXCEPT !.op = "facade_init", !.thread = t,
                   !.facade = f]
    /\ scenario' = ScenarioNext(ReadEvent, last')
    /\ UNCHANGED <<symbols, local_sessions, mounts, nextSession, matchers,
                   nextAdapter, held, stack_uri, ctx, active, preEnter,
                   mountedIn, inflight>>

\* variant: the wrapper keeps the session its maker had
FacadeSessionAtCreation(t, f) ==
    IF f = NewFacade THEN local_sessions[t] ELSE facades[f].session

\* the session a method of facade f works on when thread t calls it: each
\* method reads local_sessions.session
FacadeSession(t, f) == local_sessions[t]

\* requests_session.request: forwarded to local_sessions.session, no close
facade_request(t, f, url) ==
    /\ Made(f)
    /\ IF FacadeSession(t, f) = NoSession
       THEN last' = [NoObs EXCEPT !.op = "facade_request", !.thread = t,
                        !.facade = f, !.outcome = "AttributeError"]
       ELSE \E o \in NetOutcomes(Response(FacadeSession(t, f), url)) :
               LET r == Response(FacadeSession(t, f), url)
               IN last' = [NoObs EXCEPT !.op = "facade_request",
                              !.thread = t, !.facade = f, !.url = url,
                              !.session = FacadeSession(t, f),
                              !.served = r.served, !.adapter = r.adapter,
                              !.matcher = r.matcher, !.outcome = o]
    /\ scenario' = ScenarioNext(ReadEvent, last')
    /\ UNCHANGED <<symbols, local_sessions, mounts, nextSession, matchers,
                   nextAdapter, held, stack_uri, ctx, active, preEnter,
                   mountedIn, facades, inflight>>

\* requests_session.get_adapter: local_sessions.session.get_adapter(url)
facade_get_adapter(t, f, url) ==
    /\ Made(f)
    /\ IF FacadeSession(t, f) = NoSession
       THEN last' = [NoObs EXCEPT !.op = "facade_get_adapter", !.thread = t,
                        !.facade = f, !.outcome = "AttributeError"]
       ELSE last' = [NoObs EXCEPT !.op = "facade_get_adapter", !.thread = t,
                        !.facade = f, !.url = url,
                        !.session = FacadeSession(t, f),
                        !.adapter = get_adapter(mounts[FacadeSession(t, f)],
                                                url)]
    /\ scenario' = ScenarioNext(ReadEvent, last')
    /\ UNCHANGED <<symbols, local_sessions, mounts, nextSession, matchers,
                   nextAdapter, held, stack_uri, ctx, active, preEnter,
                   mountedIn, facades, inflight>>

\* requests_session.close: forwarded to local_sessions.session.close()
facade_close(t, f) ==
    /\ Made(f)
    /\ last' = [NoObs EXCEPT !.op = "facade_close", !.thread = t,
                   !.facade = f,
                   !.outcome = IF FacadeSession(t, f) = NoSession
                               THEN "AttributeError" ELSE "ok",
                   !.session = FacadeSession(t, f),
                   !.closed = FacadeSession(t, f)]
    /\ scenario' = ScenarioNext(ReadEvent, last')
    /\ UNCHANGED <<symbols, local_sessions, mounts, nextSession, matchers,
                   nextAdapter, held, stack_uri, ctx, active, preEnter,
                   mountedIn, facades, inflight>>

\* requests_session.mount(k, HTTPAdapter()): local_sessions.session.mount
facade_mount(t, f, k) ==
    /\ Made(f)
    /\ IF FacadeSession(t, f) = NoSession
       THEN /\ last' = [NoObs EXCEPT !.op = "facade_mount", !.thread = t,
                           !.facade = f, !.outcome = "AttributeError"]
            /\ mounts' = mounts
       ELSE /\ mounts' = [mounts EXCEPT ![FacadeSession(t, f)] =
                             mount(@, k, HTTPAdapter)]
            /\ last' = [NoObs EXCEPT !.op = "facade_mount", !.thread = t,
                           !.facade = f, !.url = k,
                           !.session = FacadeSession(t, f),
                           !.adapter = HTTPAdapter]
    /\ scenario' = ScenarioNext(WriteEvent, last')
    /\ UNCHANGED <<symbols, local_sessions, nextSession, matchers,
                   nextAdapter, held, stack_uri, ctx, active, preEnter,
                   mountedIn, facades, inflight>>

\* ------------------------------------------------------ activate context
\* activate.__init__, on any thread: the table is filled from the
\* attributes bound now
activate_init(c) ==
    /\ ~ctx[c].constructed
    /\ \A d \in Earlier(c) : ctx[d].constructed
    /\ ctx' = [ctx EXCEPT ![c] = [constructed |-> TRUE,
                                  replacements |-> [k \in TableKeys |-> symbols[k]]]]
    /\ last' = [NoObs EXCEPT !.op = "construct"]
    /\ scenario' = ScenarioNext(Event("construct", Loader, c, <<>>, "",
                                      <<>>, TRUE), last')
    /\ UNCHANGED <<symbols, local_sessions, mounts, nextSession, matchers,
                   nextAdapter, held, stack_uri, active, preEnter, mountedIn,
                   facades, inflight>>

\* the attributes after __enter__ ran on a thread whose session is s
Entered(s) ==
    [k \in SymNames |-> IF k \in EnterWritten THEN EnterBinding(k, s)
                        ELSE symbols[k]]

\* activate.__enter__: the debug line reads local_sessions.session first
activate_enter(t, c) ==
    /\ ctx[c].constructed
    /\ IF local_sessions[t] = NoSession
       THEN /\ last' = [NoObs EXCEPT !.op = "enter", !.thread = t,
                           !.outcome = "AttributeError"]
            /\ scenario' = ScenarioNext(WriteEvent, last')
            /\ UNCHANGED <<symbols, active, preEnter, mountedIn>>
       ELSE /\ symbols' = Entered(local_sessions[t])
            /\ active' = [active EXCEPT ![c] = TRUE]
            /\ preEnter' = IF active[c] THEN preEnter
                           ELSE [preEnter EXCEPT ![c] = symbols]
            /\ mountedIn' = mountedIn
            /\ last' = [NoObs EXCEPT !.op = "enter", !.thread = t,
                           !.ctx = c, !.wasActive = active[c],
                           !.session = local_sessions[t],
                           !.snap = IF active[c] THEN symbols
                                    ELSE NoSnapshot]
            /\ scenario' = ScenarioNext(Event("enter", t, c, <<>>, "", <<>>,
                                              TRUE), last')
    /\ UNCHANGED <<local_sessions, mounts, nextSession, matchers,
                   nextAdapter, held, stack_uri, ctx,
                   facades, inflight>>

\* the attributes after __exit__ of context c ran
Restored(c) ==
    [k \in SymNames |-> IF k \in ExitWritten THEN ctx[c].replacements[k]
                        ELSE symbols[k]]

\* variant: __exit__ leaves the slot of thread t as it is
ExitSessionKept(t) == local_sessions[t]

\* the session __exit__ leaves in the slot of thread t: Session()
ExitSession(t) == nextSession

\* variant: the slot is one for the whole process
ExitSlotsGlobal(t) == [u \in Threads |-> ExitSession(t)]

\* line 266 assigns an attribute of a threading.local: the slot of the
\* calling thread only
ExitSlots(t) == [local_sessions EXCEPT ![t] = ExitSession(t)]

\* variant: the new session takes over the mounts of the one it replaces
NewSessionMountsKept(t) == mounts[local_sessions[t]]

\* what that new Session has mounted
NewSessionMounts(t) == DefaultMounts

\* activate.__exit__: the debug line reads local_sessions.session first
activate_exit(t, c, exc) ==
    /\ ctx[c].constructed
    /\ nextSession <= MaxSessions
    /\ IF local_sessions[t] = NoSession
       THEN /\ last' = [NoObs EXCEPT !.op = "exit", !.thread = t,
                           !.outcome = "AttributeError"]
            /\ scenario' = ScenarioNext(WriteEvent, last')
            /\ UNCHANGED <<symbols, local_sessions, mounts, nextSession,
                           active, preEnter, mountedIn>>
       ELSE /\ symbols' = Restored(c)
            /\ mounts' = [s \in Sessions \cup {nextSession} |->
                            IF s \in Sessions THEN mounts[s]
                            ELSE NewSessionMounts(t)]
            /\ nextSession' = nextSession + 1
            /\ local_sessions' = ExitSlots(t)
            /\ active' = [active EXCEPT ![c] = FALSE]
            /\ preEnter' = [preEnter EXCEPT ![c] = NoSnapshot]
            /\ mountedIn' = [mountedIn EXCEPT ![c] = {}]
            /\ last' = [NoObs EXCEPT !.op = "exit", !.thread = t,
                           !.ctx = c, !.exc = exc,
                           !.wasActive = active[c],
                           !.mounted = mountedIn[c],
                           !.session = ExitSession(t),
                           !.propagates = Propagates(exc, ExitReturn)]
            /\ scenario' = ScenarioNext(Event("exit", t, c, <<>>, "", <<>>,
                                              TRUE), last')
    /\ UNCHANGED <<matchers, nextAdapter, held, stack_uri, ctx,
                   facades, inflight>>

\* the bound n on adapters stops the registration() calls that would
\* allocate one more
Allocates(t, n) == local_sessions[t] = NoSession \/ nextAdapter <= n

\* the calls that change what the module holds
NextCore ==
    \/ \E t \in Threads : get_session(t)
    \/ \E t \in Threads : facade_close(t, NewFacade)
    \/ \E t \in Threads, u \in Uris :
          Allocates(t, MaxAdapters) /\ registration(t, u)
    \/ \E u \in Uris, s \in 1..MaxSessions :
          nextAdapter <= MaxAdapters /\ register_on_session(u, s)
    \/ \E c \in Contexts : activate_init(c)
    \/ \E t \in Threads, c \in Contexts : activate_enter(t, c)
    \/ \E t \in Threads, c \in Contexts, exc \in {"None", "Error"} :
          activate_exit(t, c, exc)

\* the requests: they change nothing but what the caller observes
NextCalls ==
    \/ \E t \in Threads, sym \in VerbSyms, url \in Urls, ar \in Redirects :
          \E m \in MethodArgs(sym) : call_symbol(t, sym, m, url, ar)
    \/ \E t \in Threads, sym \in VerbSyms, url \in Urls, ar \in Redirects :
          \E m \in MethodArgs(sym) : call_wrapper(t, sym, m, url, ar)
    \/ \E t \in Threads, url \in Urls : facade_request(t, NewFacade, url)

\* the calls on requests_session objects that are kept
NextFacades ==
    \/ \E t \in Threads, f \in Facades : facade_init(t, f)
    \/ \E t \in Threads, f \in Facades, url \in Urls :
          facade_request(t, f, url)
    \/ \E t \in Threads, f \in Facades, url \in Urls :
          facade_get_adapter(t, f, url)
    \/ \E t \in Threads, f \in Facades : facade_close(t, f)
    \/ \E t \in Threads, f \in Facades :
          facade_mount(t, f, <<"http://", "c", "/">>)

Next == NextCore \/ NextCalls \/ NextFacades

\* every call, by every thread, in every order
Spec == Init /\ [][Next]_vars

\* the calls that change state, in every order; the requests are left out
\* because they leave every variable but last and scenario unchanged
SpecCore == Init /\ [][NextCore]_vars

\* the runs of the scenario of section 8, with requests, get_session and
\* close calls of any thread in between
NextScenario ==
    \/ \E t \in Threads : get_session(t) /\ scenario'.step >= 0
    \/ \E t \in Threads : facade_close(t, NewFacade) /\ scenario'.step >= 0
    \/ \E t \in Threads, u \in Uris :
          /\ Allocates(t, MaxAdapters)
          /\ registration(t, u) /\ scenario'.step >= 0
    \/ \E c \in Contexts : activate_init(c) /\ scenario'.step >= 0
    \/ \E t \in Threads, c \in Contexts :
          activate_enter(t, c) /\ scenario'.step >= 0
    \/ \E t \in Threads, c \in Contexts :
          activate_exit(t, c, "None") /\ scenario'.step >= 0
    \/ \E t \in Threads, sym \in VerbSyms, url \in Urls :
          call_symbol(t, sym, "get", url, "absent") /\ scenario'.step >= 0
    \/ \E t \in Threads, sym \in VerbSyms, url \in Urls :
          call_wrapper(t, sym, "get", url, "absent") /\ scenario'.step >= 0
    \/ \E t \in Threads, url \in Urls :
          facade_request(t, NewFacade, url) /\ scenario'.step >= 0

SpecScenario == Init /\ [][NextScenario]_vars

\* a url under a registered uri and one under none
VerbUrls == { <<"http://", "a", "/", "w">>, <<"http://", "c", "/", "w">> }

\* the runs of the scenario of section 8 for the uri "a", with requests of
\* any thread in between: through the attributes of the requests package,
\* and through the wrappers by name with any arguments
NextVerbs ==
    \/ \E c \in Contexts : activate_init(c) /\ scenario'.step >= 0
    \/ \E t \in Threads, c \in Contexts :
          activate_enter(t, c) /\ scenario'.step >= 0
    \/ \E t \in Threads :
          /\ Allocates(t, MaxAdapters)
          /\ registration(t, <<"a">>) /\ scenario'.step >= 0
    \/ \E t \in Threads, c \in Contexts :
          activate_exit(t, c, "None") /\ scenario'.step >= 0
    \/ \E t \in Threads, sym \in VerbSyms, url \in VerbUrls :
          call_symbol(t, sym, "get", url, "absent") /\ scenario'.step >= 0
    \/ \E t \in Threads, sym \in VerbSyms, url \in VerbUrls, ar \in Redirects :
          \E m \in MethodArgs(sym) :
             call_wrapper(t, sym, m, url, ar) /\ scenario'.step >= 0

SpecVerbs == Init /\ [][NextVerbs]_vars

\* every kind of call, with one url, one uri for each way to register and
\* one context
NextSessions ==
    \/ \E t \in Threads : get_session(t)
    \/ \E t \in Threads :
          Allocates(t, MaxAdapters) /\ registration(t, <<"a">>)
    \/ \E s \in 1..MaxSessions :
          nextAdapter <= MaxAdapters /\ register_on_session(<<"b">>, s)
    \/ activate_init("c1")
    \/ \E t \in Threads : activate_enter(t, "c1")
    \/ \E t \in Threads : activate_exit(t, "c1", "None")
    \/ \E t \in Threads, sym \in {"requests.request", "requests.get"} :
          call_symbol(t, sym, "get", <<"http://", "a", "/", "w">>, "absent")
    \/ \E t \in Threads, sym \in VerbSyms :
          call_wrapper(t, sym, "get", <<"http://", "a", "/", "w">>, "absent")
    \/ \E t \in Threads :
          facade_request(t, NewFacade, <<"http://", "a", "/", "w">>)
    \/ \E t \in Threads : facade_close(t, NewFacade)
    \/ \E t \in Threads : facade_mount(t, NewFacade, <<"http://", "c", "/">>)

SpecSessions == Init /\ [][NextSessions]_vars

\* a requests_session object that is kept and used by any thread, between
\* the calls of one context and registrations of one uri
NextFacade ==
    \/ \E t \in Threads :
          Allocates(t, MaxAdapters) /\ registration(t, <<"a">>)
    \/ activate_init("c1")
    \/ \E t \in Threads : activate_enter(t, "c1")
    \/ \E t \in Threads : activate_exit(t, "c1", "None")
    \/ \E t \in Threads, f \in Facades : facade_init(t, f)
    \/ \E t \in Threads, f \in Facades, url \in VerbUrls :
          facade_request(t, f, url)
    \/ \E t \in Threads, f \in Facades, url \in VerbUrls :
          facade_get_adapter(t, f, url)
    \/ \E t \in Threads, f \in Facades : facade_close(t, f)
    \/ \E t \in Threads, f \in Facades :
          facade_mount(t, f, <<"http://", "c", "/">>)

SpecFacade == Init /\ [][NextFacade]_vars

\* runs that register, on the session of the caller or on one it is
\* given, between constructions and exits that bring new sessions
NextRegister ==
    \/ \E t \in Threads : get_session(t)
    \/ \E t \in Threads, u \in Uris :
          Allocates(t, MaxRegistrations) /\ registration(t, u)
    \/ \E u \in Uris, s \in 1..MaxSessions :
          nextAdapter <= MaxRegistrations /\ register_on_session(u, s)
    \/ activate_init("c1")
    \/ \E t \in Threads : activate_exit(t, "c1", "None")

SpecRegister == Init /\ [][NextRegister]_vars

\* session_registration calls of several threads, each followed statement
\* by statement, in every interleaving
NextInterleave ==
    \/ \E t \in Threads, u \in Uris, s \in 1..MaxSessions :
          nextAdapter <= MaxRegistrations /\ reg_hold_onto(t, u, s)
    \/ \E t \in Threads : reg_add_matcher(t)
    \/ \E t \in Threads : reg_mount_http(t)
    \/ \E t \in Threads : reg_mount_https(t)

SpecInterleave == Init /\ [][NextInterleave]_vars

\* ------------------------------------------------------------ properties
\* this step is an __exit__ of context c that thread t ran to its end
ExitStep(t, c) ==
    /\ last'.op = "exit" /\ last'.outcome = "ok"
    /\ last'.thread = t /\ last'.ctx = c
    /\ nextSession' # nextSession

\* the mock adapters mounted in the mount table m
MockAdaptersOf(m) == {m[k] : k \in DOMAIN m} \ {HTTPAdapter}

\* uri with one trailing '/' ensured
WithSlash(u) == IF u[Len(u)] = "/" THEN u ELSE Append(u, "/")

\* this step is a registration of uri u on session s that ran to its end
RegStep(u, s) ==
    \/ register_on_session(u, s)
    \/ \E t \in Threads :
          local_sessions[t] = s /\ s # NoSession /\ registration(t, u)

\* session s, with mount tables mt and matchers ms, has a mount key or a
\* matcher for uri u
ServesIn(mt, ms, s, u) ==
    \E k \in DOMAIN mt[s] :
       \/ k \in { <<"http://">> \o WithSlash(u), <<"https://">> \o WithSlash(u) }
       \/ /\ mt[s][k] # HTTPAdapter
          /\ \E i \in DOMAIN ms[mt[s][k]] : ms[mt[s][k]][i] = u

\* C1: in the scenario enter; register(u); get(url under http://u/); exit;
\* get(url), the first get runs requests_get on the thread's current
\* session, is answered by the matcher registered for u through the adapter
\* mounted under http://u/ and does not go to the network; the second get
\* runs the original requests.get and goes to the network, through no mock
\* adapter.
C1_Scenario ==
    /\ scenario.step >= 4 =>
          LET f == scenario.first
              hk == <<"http://">> \o WithSlash(scenario.uri)
          IN /\ f.fn = Core("requests_get")
             /\ f.outcome = "ok"
             /\ f.served = "mock"
             /\ f.matcher = scenario.uri
             /\ f.adapter # HTTPAdapter
             /\ f.session \in Sessions
             /\ hk \in DOMAIN mounts[f.session]
             /\ mounts[f.session][hk] = f.adapter
             /\ scenario.step = 4 => f.session = local_sessions[scenario.thread]
    /\ scenario.step = 6 =>
          /\ scenario.second.fn = Lib("requests.get")
          /\ scenario.second.served = "network"
          /\ scenario.second.adapter = HTTPAdapter
          /\ scenario.second.matcher = <<>>

C1_Witness == scenario.step = 6

\* C2: after an __exit__ of an entered context every attribute of the
\* replacement table is the object it was just before that context's enter.
C2_RestoreRoundTrip ==
    [][\A t \in Threads, c \in Contexts :
          (ExitStep(t, c) /\ active[c]) =>
             \A k \in TableKeys : symbols'[k] = preEnter[c][k]]_vars

\* C3: after an __exit__ that ran to its end, the caller's current session
\* is a Session that did not exist before, differs from the one that was
\* current, and has no mock adapter mounted.
C3_FreshSessionAfterExit ==
    [][\A t \in Threads, c \in Contexts :
          ExitStep(t, c) =>
             LET n == local_sessions'[t]
             IN /\ n # NoSession
                /\ n \notin Sessions
                /\ n # local_sessions[t]
                /\ MockAdaptersOf(mounts'[n]) = {}]_vars

C3_Witness ==
    /\ last.op = "exit" /\ last.outcome = "ok"
    /\ \E s \in Sessions \ {local_sessions[last.thread]} :
          MockAdaptersOf(mounts[s]) # {}

\* C4: when an __exit__ has run to its end, no adapter that registration()
\* mounted during that activation is mounted in the current session of any
\* thread, and no later step makes an adapter that already exists newly
\* reachable through a thread's current session.
C4_NoMockLeak ==
    [][/\ \A t \in Threads, c \in Contexts :
             ExitStep(t, c) =>
                \A t2 \in Threads :
                   local_sessions'[t2] # NoSession =>
                      MockAdaptersOf(mounts'[local_sessions'[t2]])
                         \cap mountedIn[c] = {}
       /\ \A t2 \in Threads :
             local_sessions'[t2] # NoSession =>
                MockAdaptersOf(mounts'[local_sessions'[t2]]) \subseteq
                   (IF local_sessions[t2] = NoSession THEN {}
                    ELSE MockAdaptersOf(mounts[local_sessions[t2]]))
                   \cup {a \in 1..(MaxAdapters + 1) : a >= nextAdapter}]_vars

C4_Witness ==
    last.op = "exit" /\ last.outcome = "ok" /\ last.mounted # {}

\* C5: every access to the current session, on every thread, succeeds and
\* yields a Session; a thread that accessed the registry has one.
C5_RegistryTotal ==
    last.op \in {"get_session", "register", "call", "facade_request",
                 "facade_close", "enter", "exit"} =>
       /\ last.outcome # "AttributeError"
       /\ local_sessions[last.thread] # NoSession

\* C6: a registration of uri u on session s adds exactly the keys
\* 'http://' + n and 'https://' + n to the session's mounts, n being u with
\* one trailing '/' ensured; both keys map to one adapter, allocated by the
\* call, that contains a matcher bound to u; the other mounts stay.
C6_MountCompleteness ==
    [][\A u \in Uris, s \in 1..MaxSessions :
          RegStep(u, s) =>
             LET hk == <<"http://">> \o WithSlash(u)
                 sk == <<"https://">> \o WithSlash(u)
             IN /\ DOMAIN mounts'[s] = DOMAIN mounts[s] \cup {hk, sk}
                /\ mounts'[s][hk] = mounts'[s][sk]
                /\ mounts'[s][hk] # HTTPAdapter
                /\ mounts'[s][hk] >= nextAdapter
                /\ \E i \in DOMAIN matchers'[mounts'[s][hk]] :
                      matchers'[mounts'[s][hk]][i] = u
                /\ \A k \in DOMAIN mounts[s] \ {hk, sk} :
                      mounts'[s][k] = mounts[s][k]]_vars

C6_Witness ==
    /\ last.op \in {"register", "register_on_session"}
    /\ last.outcome = "ok"
    /\ stack_uri = <<"a">>
    /\ <<"http://", "a", "/">> \in DOMAIN mounts[last.session]
    /\ <<"https://", "a", "/">> \in DOMAIN mounts[last.session]

\* C7: under an activation, when thread T1 has registered uriA on its
\* current session and another thread T2 calls registration(uriB), then T2
\* has a current session of its own with uriB mounted, T1's session has no
\* mount or matcher for uriB and T2's none for uriA.
C7_ThreadIsolation ==
    [][\A T1 \in Threads, T2 \in Threads, uA \in Uris, uB \in Uris :
          (/\ T1 # T2
           /\ WithSlash(uA) # WithSlash(uB)
           /\ local_sessions[T1] # NoSession
           /\ \E c \in Contexts :
                 /\ active[c]
                 /\ mountedIn[c] \cap MockAdaptersOf(mounts[local_sessions[T1]]) # {}
           /\ ServesIn(mounts, matchers, local_sessions[T1], uA)
           /\ registration(T2, uB))
          => /\ local_sessions'[T2] # NoSession
             /\ local_sessions'[T2] # local_sessions'[T1]
             /\ ServesIn(mounts', matchers', local_sessions'[T2], uB)
             /\ ~ServesIn(mounts', matchers', local_sessions'[T1], uB)
             /\ ~ServesIn(mounts', matchers', local_sessions'[T2], uA)]_vars

\* C8: an __exit__ of an entered context that is handed the error raised
\* inside the with block sets every attribute of the table to its captured
\* value, leaves the context inactive, gives the thread a new session
\* without mock adapters, and lets the error propagate.
C8_RestoreOnError ==
    [][\A t \in Threads, c \in Contexts :
          (ExitStep(t, c) /\ active[c] /\ last'.exc = "Error") =>
             /\ \A k \in TableKeys : symbols'[k] = ctx[c].replacements[k]
             /\ ~active'[c]
             /\ local_sessions'[t] \notin Sessions \cup {NoSession}
             /\ MockAdaptersOf(mounts'[local_sessions'[t]]) = {}
             /\ last'.propagates]_vars

C8_Witness ==
    /\ last.op = "exit" /\ last.outcome = "ok"
    /\ last.exc = "Error" /\ last.wasActive /\ last.propagates

\* C9: right after an __enter__ that ran to its end, every attribute of the
\* replacement table is bound to an implementation of this module.
C9_EnterSubstitutesAll ==
    (last.op = "enter" /\ last.outcome = "ok") =>
       \A k \in TableKeys : symbols[k].kind = "core"

\* C10: __enter__ writes only attributes that are keys of the replacement
\* table, and after enter; exit no attribute that __enter__ wrote is bound
\* to an implementation of this module.
C10_TableComplete ==
    (last.op = "exit" /\ last.outcome = "ok" /\ last.wasActive) =>
       /\ EnterWritten \subseteq TableKeys
       /\ \A k \in EnterWritten : symbols[k].kind # "core"

\* the uris that session s, with mount tables mt and matchers ms, has
\* registered: both keys are mounted on one mock adapter that holds the
\* uri's matcher
RegisteredOn(mt, ms, s) ==
    {u \in Uris :
        LET hk == <<"http://">> \o WithSlash(u)
            sk == <<"https://">> \o WithSlash(u)
        IN /\ {hk, sk} \subseteq DOMAIN mt[s]
           /\ mt[s][hk] = mt[s][sk]
           /\ mt[s][hk] # HTTPAdapter
           /\ \E i \in DOMAIN ms[mt[s][hk]] : ms[mt[s][hk]][i] = u}

\* a registration of u2 on session s keeps what the uris of the set kept
\* had: their keys, the adapters under them and the matchers in those
\* adapters; and it adds two keys when fresh
Cumulative(u2, s, kept, fresh) ==
    LET hk2 == <<"http://">> \o WithSlash(u2)
        sk2 == <<"https://">> \o WithSlash(u2)
    IN /\ {hk2, sk2} \subseteq DOMAIN mounts'[s]
       /\ \A u1 \in kept :
             LET hk == <<"http://">> \o WithSlash(u1)
                 sk == <<"https://">> \o WithSlash(u1)
             IN /\ {hk, sk} \subseteq DOMAIN mounts'[s]
                /\ mounts'[s][hk] = mounts[s][hk]
                /\ mounts'[s][sk] = mounts[s][sk]
                /\ \E i \in DOMAIN matchers'[mounts[s][hk]] :
                      matchers'[mounts[s][hk]][i] = u1
       /\ fresh => Cardinality(DOMAIN mounts'[s])
                      = Cardinality(DOMAIN mounts[s]) + 2

\* C11 as stated: a registration of a uri on a session leaves every other
\* uri registered there with its two keys, its adapter and its matcher,
\* and adds two mount keys when the uri is not one registered there.
C11_Cumulative ==
    [][\A u2 \in Uris, s \in 1..MaxSessions :
          RegStep(u2, s) =>
             LET R == RegisteredOn(mounts, matchers, s)
             IN Cumulative(u2, s, R \ {u2}, u2 \notin R)]_vars

\* C11 amended: the same for the uris that differ from the new one by more
\* than a trailing '/'; two keys are added when no registered uri differs
\* from the new one by at most that.
C11_CumulativeNormalised ==
    [][\A u2 \in Uris, s \in 1..MaxSessions :
          RegStep(u2, s) =>
             LET R == RegisteredOn(mounts, matchers, s)
                 same == {u1 \in R : WithSlash(u1) = WithSlash(u2)}
             IN Cumulative(u2, s, R \ same, same = {})]_vars

C11_Witness ==
    /\ last.op \in {"register", "register_on_session"}
    /\ last.outcome = "ok"
    /\ Cardinality(RegisteredOn(mounts, matchers, last.session)) = 2
    /\ Cardinality(DOMAIN mounts[last.session]) = 6

\* the last call ran a wrapper of this module up to session.request
Dispatched ==
    /\ last.op = "call" /\ last.fn.kind = "core"
    /\ last.outcome # "AttributeError"

\* C12: requests_get and requests_options hand allow_redirects=True to
\* requests_request, and requests_head allow_redirects=False, when the
\* caller gives none; a value the caller gives is handed on as it is; each
\* verb wrapper hands on its own method name and the caller's url.
C12_VerbDefaults ==
    Dispatched =>
       LET n == last.fn.name
           given == "allow_redirects" \in DOMAIN last.args.kwargs
           default == CASE n \in {"requests_get", "requests_options"} -> "True"
                        [] n = "requests_head" -> "False"
                        [] OTHER -> "absent"
           verb == CASE n = "requests_get" -> "get"
                     [] n = "requests_options" -> "options"
                     [] n = "requests_head" -> "head"
                     [] n = "requests_post" -> "post"
                     [] n = "requests_put" -> "put"
                     [] n = "requests_patch" -> "patch"
                     [] n = "requests_delete" -> "delete"
                     [] OTHER -> last.args.method
       IN /\ last.method = verb
          /\ last.url = last.args.url
          /\ given => /\ "allow_redirects" \in DOMAIN last.kwargs
                      /\ last.kwargs["allow_redirects"]
                            = last.args.kwargs["allow_redirects"]
          /\ (~given /\ default # "absent") =>
                /\ "allow_redirects" \in DOMAIN last.kwargs
                /\ last.kwargs["allow_redirects"] = default
          /\ (~given /\ default = "absent") =>
                "allow_redirects" \notin DOMAIN last.kwargs

C12_Witness ==
    /\ Dispatched /\ last.outcome = "ok"
    /\ last.fn = Core("requests_head")
    /\ "allow_redirects" \notin DOMAIN last.args.kwargs
    /\ last.kwargs["allow_redirects"] = "False"

\* C13: an __enter__ of a context that is already active fills the
\* replacement table with the attributes bound at that moment, and the
\* __exit__ that follows it sets every attribute of the table to what that
\* second __enter__ found.
C13_DoubleEnter ==
    [][\A t \in Threads, c \in Contexts :
          /\ (/\ active[c] /\ local_sessions[t] # NoSession
              /\ activate_enter(t, c))
             => \A k \in TableKeys : ctx'[c].replacements[k] = symbols[k]
          /\ (/\ ExitStep(t, c)
              /\ last.op = "enter" /\ last.outcome = "ok"
              /\ last.ctx = c /\ last.wasActive)
             => \A k \in TableKeys : symbols'[k] = last.snap[k]]_vars

\* C14: an __exit__ of a context that is not active raises
\* ActivationStateError and does not run as a deactivation.
C14_ExitInactive ==
    [][\A t \in Threads, c \in Contexts :
          (/\ ~active[c] /\ local_sessions[t] # NoSession
           /\ \E exc \in {"None", "Error"} : activate_exit(t, c, exc))
          => /\ last'.outcome = "ActivationStateError"
             /\ UNCHANGED <<symbols, local_sessions, nextSession>>]_vars

\* C15: a call of requests_request that returns has read the thread's
\* session once, called request once on it, then close on the same
\* session, and then returned what that request produced.
C15_DispatchOrder ==
    (Dispatched /\ last.outcome = "ok") =>
       LET s == local_sessions[last.thread]
           r == Response(s, last.url)
       IN /\ last.session = s
          /\ last.events = << <<"read", s>>, <<"request", s>>,
                              <<"close", s>>, <<"return", s>> >>
          /\ last.served = r.served
          /\ last.adapter = r.adapter
          /\ last.matcher = r.matcher

C15_Witness ==
    /\ Dispatched /\ last.outcome = "ok"
    /\ last.served = "mock"
    /\ last.closed = last.session /\ last.session # NoSession

\* C16: when session.request fails inside requests_request, the caller of
\* the wrapper gets that failure, request was called once and not again,
\* and the contexts, the attributes of the requests package and the
\* thread's session are as before the call.
C16_FailurePassThrough ==
    [][(/\ last'.op = "call" /\ last'.fn.kind = "core"
        /\ last'.outcome \notin {"ok", "AttributeError"}
        /\ last' # last)
       => LET s == local_sessions[last'.thread]
              r == Response(s, last'.url)
          IN /\ last'.outcome \in NetOutcomes(r) \ {"ok"}
             /\ Cardinality({i \in DOMAIN last'.events :
                               last'.events[i] = <<"request", s>>}) = 1
             /\ \A i \in DOMAIN last'.events :
                   last'.events[i][1] \in {"read", "request", "raise"}
             /\ UNCHANGED <<symbols, ctx, active, local_sessions, mounts>>]_vars

C16_Witness ==
    /\ Dispatched /\ last.outcome = "ConnectionError"
    /\ \E c \in Contexts : active[c]

\* C17: a method called on a requests_session object works on the session
\* the calling thread has at the time of the call, whenever the object was
\* made, and gives what the same method of that session gives.
C17_StatelessFacade ==
    (/\ last.op \in {"facade_request", "facade_get_adapter", "facade_close",
                     "facade_mount"}
     /\ last.outcome # "AttributeError")
    => LET s == local_sessions[last.thread]
       IN /\ last.session = s
          /\ last.op = "facade_request" =>
                LET r == Response(s, last.url)
                IN /\ last.served = r.served
                   /\ last.adapter = r.adapter
                   /\ last.matcher = r.matcher
                   /\ last.outcome \in NetOutcomes(r)
          /\ last.op = "facade_get_adapter" =>
                last.adapter = get_adapter(mounts[s], last.url)
          /\ last.op = "facade_close" => last.closed = s
          /\ last.op = "facade_mount" =>
                /\ last.url \in DOMAIN mounts[s]
                /\ mounts[s][last.url] = last.adapter

C17_Witness ==
    /\ last.op = "facade_request" /\ last.outcome = "ok"
    /\ last.facade \in Facades
    /\ facades[last.facade].thread = last.thread
    /\ facades[last.facade].session # NoSession
    /\ facades[last.facade].session # last.session
    /\ MockAdaptersOf(mounts[facades[last.facade].session]) # {}

\* C18: the session of a thread is another object after a step only when
\* the step is an __exit__ that this thread ran to its end; every other
\* call, and an __exit__ of another thread, leaves it the same object.
C18_SlotFrame ==
    [][\A t \in Threads :
          local_sessions'[t] # local_sessions[t] =>
             \E c \in Contexts : ExitStep(t, c)]_vars

C18_Witness ==
    /\ last.op = "exit" /\ last.outcome = "ok"
    /\ local_sessions[last.thread] = last.session
    /\ last.session \notin {NoSession, 1}
    /\ \E t \in Threads : local_sessions[t] = NoSession

\* the attributes as C19 wants them: the wrappers under the verbs while a
\* context is active, the originals under every key of the table when
\* none is
Surface(act, syms) ==
    /\ (\E d \in Contexts : act[d]) =>
          \A k \in VerbSyms : syms[k] = Wrapper(k)
    /\ (\A d \in Contexts : ~act[d]) =>
          \A k \in TableKeys : syms[k] = Original(k)

\* C19: with several contexts, constructed at any time and entered and
\* exited in any order by any thread, every __enter__ of an inactive
\* context and every __exit__ of an active one leaves the verbs bound to
\* the wrappers while a context is active, and every attribute of the
\* table bound to the original once none is.
C19_QuiescentSurface ==
    [][\A t \in Threads, c \in Contexts :
          (/\ Surface(active, symbols)
           /\ local_sessions[t] # NoSession
           /\ \/ ~active[c] /\ activate_enter(t, c)
              \/ active[c] /\ ExitStep(t, c))
          => Surface(active', symbols')]_vars

\* C20: in every interleaving of session_registration calls, the adapter
\* a call adds its matcher to and the adapters it mounts under its http
\* and https keys are the adapter that same call allocated.
C20_RegistrationAtomic ==
    \A t \in Threads :
       LET c == inflight[t]
       IN c.own # 0 =>
             /\ c.matched \in {0, c.own}
             /\ c.http \in {0, c.own}
             /\ c.https \in {0, c.own}

====
